---- MODULE Spec2Model ----
(***************************************************************************)
(* The STG gate runtime of alive-host-cli: the window state                *)
(* (alive-body/stg/state.ts), the audit log (alive-body/stg/audit.ts),     *)
(* the cognition gate runCognitiveCycle (alive-body/stg/gate.ts) and the   *)
(* execution gate runExecution (phase-38-execution/execute.ts); around    *)
(* them the policy (alive-core/stg/policy.ts), the evaluator               *)
(* (alive-core/stg/evaluate.ts), the execution log capability              *)
(* (phase-38-execution/capabilities/log.ts), Genesis' entry point          *)
(* (alive-genesis/cognitive.ts), the snapshot reader                       *)
(* (observation/aliveSnapshot.ts), the replay invariant                    *)
(* (alive-core/stg/invariants.ts) and the host CLI process (index.js).     *)
(*                                                                         *)
(* JavaScript is single threaded: a gate call runs its checks, logs, and   *)
(* then hands control to the caller-supplied task.  While the task runs    *)
(* the call is a frame on `stack`; the task may return, throw, or itself   *)
(* call openSTG, closeSTG or a gate before it does.                        *)
(*                                                                         *)
(* A nullable / optional value is Null (absent) or Some(v).  A string that *)
(* the code inspects (a scope) is the sequence of its characters.          *)
(***************************************************************************)
EXTENDS Integers, Sequences, FiniteSets, TLC

VARIABLES
    _state,       \* state.ts `_state`: the window state
    _log,         \* audit.ts `_log`: the audit events, in append order
    clock,        \* the value Date.now() returns
    stack,        \* gate calls whose task is running, innermost last
    taskRuns,     \* how many times a gate has invoked a task
    lastResult,   \* outcome of the call that finished last, as its caller holds it
    executionLog, \* capabilities/log.ts: the lines of runtime/execution.log
    opens,        \* invariants.ts: the STGOpenEvent records kept for replay
    host          \* the host CLI process: its readline interface and exit

vars == <<_state, _log, clock, stack, taskRuns, lastResult, executionLog, opens, host>>

\* ------------------------------------------------------------------ bounds

MaxTime == 1
MaxLog == 3

Times == 0..MaxTime

\* ------------------------------------------------------------------ values

Null == <<>>
Some(v) == <<v>>
Val(o) == o[1]

\* "a.b" is <<"a", ".", "b">>
Dot == "."

\* The scopes a caller requests: "a", "a.b", "ab".
Scopes ==
    { <<"a">>,
      <<"a", Dot, "b">>,
      <<"a", "b">> }

\* The scopes a caller requests where the scope rule is examined:
\* "", "a", "a.", "a.b", "a.c", "ab", "b".
WideScopes ==
    { <<>>,
      <<"a">>,
      <<"a", Dot>>,
      <<"a", Dot, "b">>,
      <<"a", Dot, "c">>,
      <<"a", "b">>,
      <<"b">> }

\* The scopes the authority opens a window for: "a", "a.b".
AuthScopes == { <<"a">>, <<"a", Dot, "b">> }

\* Where both gates are in play: the window is opened for "a", and "a" and
\* "a.b" are requested.
RuntimeAuthScopes == { <<"a">> }
RuntimeScopes == { <<"a">>, <<"a", Dot, "b">> }

OpenIds == {"id1"}

\* The expiry instants a window is opened with.
ExpiryTimes == {0, 1}

\* What a task returns, and what it throws.
TaskValues == {"THOUGHT_EXECUTED", "X"}
TaskErrors == {[isError |-> TRUE, message |-> <<"TASK_EXECUTED">>],
               [isError |-> FALSE, message |-> <<"boom">>]}

\* The same, where both gates are in play.
RuntimeValues == {"EXECUTED"}
RuntimeErrors == {[isError |-> TRUE, message |-> <<"TASK_EXECUTED">>]}

\* String.prototype.startsWith
StartsWith(s, prefix) ==
    /\ Len(prefix) <= Len(s)
    /\ SubSeq(s, 1, Len(prefix)) = prefix

\* String(error): an Error object prints as "Error: " + message
StringOf(error) ==
    IF error.isError THEN <<"Error: ">> \o error.message ELSE error.message

\* ------------------------------------------------------------------ state.ts

InitialSTGState ==
    [state |-> "CLOSED",
     last_open_time |-> Null,
     expires_at |-> Null,
     scope |-> Null,
     stg_open_id |-> Null,
     cooldown_until |-> 0]

\* Mutant: closeSTG forgets to null the scope.
closeSTGStateKeepsScope(prev, now) ==
    [state |-> "CLOSED",
     last_open_time |-> prev.last_open_time,
     expires_at |-> Null,
     scope |-> prev.scope,
     stg_open_id |-> Null,
     cooldown_until |-> prev.cooldown_until]

\* Mutant: closing after the cooldown has passed moves cooldown_until to now.
closeSTGStateExtendsCooldown(prev, now) ==
    [state |-> "CLOSED",
     last_open_time |-> prev.last_open_time,
     expires_at |-> Null,
     scope |-> Null,
     stg_open_id |-> Null,
     cooldown_until |-> IF prev.cooldown_until > now
                        THEN prev.cooldown_until
                        ELSE now]

closeSTGState(prev, now) ==
    [state |-> "CLOSED",
     last_open_time |-> prev.last_open_time,
     expires_at |-> Null,
     scope |-> Null,
     stg_open_id |-> Null,
     cooldown_until |-> IF prev.cooldown_until > now
                        THEN prev.cooldown_until
                        ELSE prev.cooldown_until]

\* Mutant: opening never shortens the cooldown that is in force.
openSTGStateKeepsLongerCooldown(params) ==
    [state |-> "OPEN",
     last_open_time |-> Some(params.now),
     expires_at |-> Some(params.expires_at),
     scope |-> Some(params.scope),
     stg_open_id |-> Some(params.stg_open_id),
     cooldown_until |-> IF _state.cooldown_until > params.cooldown_until
                        THEN _state.cooldown_until
                        ELSE params.cooldown_until]

openSTGState(params) ==
    [state |-> "OPEN",
     last_open_time |-> Some(params.now),
     expires_at |-> Some(params.expires_at),
     scope |-> Some(params.scope),
     stg_open_id |-> Some(params.stg_open_id),
     cooldown_until |-> params.cooldown_until]

\* The parameters openSTG is called with: now is the caller's Date.now(),
\* cooldown_until is later than now, as the callers compute them.
OpenParams ==
    [now : {clock}, expires_at : ExpiryTimes, scope : AuthScopes,
     stg_open_id : OpenIds, cooldown_until : {clock + 1}]

RuntimeOpenParams ==
    [now : {clock}, expires_at : ExpiryTimes, scope : RuntimeAuthScopes,
     stg_open_id : OpenIds, cooldown_until : {clock + 1}]

\* ------------------------------------------------------------------ audit.ts

AuditEvent(type, timestamp, reason, scope, stg_open_id, metadata) ==
    [type |-> type, timestamp |-> timestamp, reason |-> reason,
     scope |-> scope, stg_open_id |-> stg_open_id, metadata |-> metadata]

\* Mutant: the event is put at the head of the log (unshift for push).
logAuditEventPrepends(log, event) == <<event>> \o log

logAuditEvent(log, event) == Append(log, event)

\* Room in the bounded log for n more events, after one closing event for
\* every gate call that is still running.
Room(n) == Len(_log) + Len(stack) + n <= MaxLog

\* ------------------------------------------------------------------ gate.ts

\* Mutant: the hierarchical match forgets the dot.
isScopeAuthorizedPrefixOnly(requested, authorized) ==
    IF authorized = Null
    THEN FALSE
    ELSE \/ requested = Val(authorized)
         \/ StartsWith(requested, Val(authorized))

isScopeAuthorized(requested, authorized) ==
    IF authorized = Null
    THEN FALSE
    ELSE \/ requested = Val(authorized)
         \/ StartsWith(requested, Val(authorized) \o <<Dot>>)

Returned(fn, value) == [fn |-> fn, kind |-> "returned", value |-> Some(value)]
Threw(fn, error) == [fn |-> fn, kind |-> "threw", value |-> Some(error)]

GateError(parts) == [isError |-> TRUE, message |-> parts]

Frame(fn, requestedScope, now, state) ==
    [fn |-> fn, requestedScope |-> requestedScope, now |-> now, state |-> state]

Top == stack[Len(stack)]
Pop == SubSeq(stack, 1, Len(stack) - 1)

\* Mutant: the expiry check is missing.
CognitionVerdictNoExpiry(state, now, requestedScope) ==
    IF state.state # "OPEN" THEN "no_stg_open"
    ELSE IF ~isScopeAuthorized(requestedScope, state.scope)
         THEN "unauthorized_cognition"
    ELSE "none"

\* Mutant: the status check is missing.
CognitionVerdictNoStatus(state, now, requestedScope) ==
    IF state.expires_at # Null /\ now > Val(state.expires_at)
    THEN "stg_expired"
    ELSE IF ~isScopeAuthorized(requestedScope, state.scope)
         THEN "unauthorized_cognition"
    ELSE "none"

\* Mutant: the window already counts as expired at expires_at.
CognitionVerdictExpiredAtDeadline(state, now, requestedScope) ==
    IF state.state # "OPEN" THEN "no_stg_open"
    ELSE IF state.expires_at # Null /\ now >= Val(state.expires_at)
         THEN "stg_expired"
    ELSE IF ~isScopeAuthorized(requestedScope, state.scope)
         THEN "unauthorized_cognition"
    ELSE "none"

\* Mutant: the scope check comes before the expiry check.
CognitionVerdictScopeFirst(state, now, requestedScope) ==
    IF state.state # "OPEN" THEN "no_stg_open"
    ELSE IF ~isScopeAuthorized(requestedScope, state.scope)
         THEN "unauthorized_cognition"
    ELSE IF state.expires_at # Null /\ now > Val(state.expires_at)
         THEN "stg_expired"
    ELSE "none"

\* Which check of runCognitiveCycle fails first: "none" when all pass.
CognitionVerdict(state, now, requestedScope) ==
    IF state.state # "OPEN" THEN "no_stg_open"
    ELSE IF state.expires_at # Null /\ now > Val(state.expires_at)
         THEN "stg_expired"
    ELSE IF ~isScopeAuthorized(requestedScope, state.scope)
         THEN "unauthorized_cognition"
    ELSE "none"

CognitionViolationEvent(reason, state, now, requestedScope) ==
    CASE reason = "no_stg_open" ->
           AuditEvent("CONSTITUTIONAL_VIOLATION", now, reason,
                      Some(requestedScope), Null,
                      Some([state |-> state.state]))
      [] reason = "stg_expired" ->
           AuditEvent("CONSTITUTIONAL_VIOLATION", now, reason,
                      Some(requestedScope), state.stg_open_id,
                      Some([expires_at |-> Val(state.expires_at), now |-> now]))
      [] reason = "unauthorized_cognition" ->
           AuditEvent("CONSTITUTIONAL_VIOLATION", now, reason,
                      Some(requestedScope), state.stg_open_id,
                      Some([authorized_scope |-> state.scope]))

CognitionViolationError(reason, state, requestedScope) ==
    CASE reason = "no_stg_open" ->
           GateError(<<"CONSTITUTIONAL_VIOLATION: Cognition attempted without STG_OPEN">>)
      [] reason = "stg_expired" ->
           GateError(<<"CONSTITUTIONAL_VIOLATION: STG_OPEN has expired">>)
      [] reason = "unauthorized_cognition" ->
           GateError(<<"CONSTITUTIONAL_VIOLATION: Scope '", requestedScope,
                       "' not authorized (authorized: '", state.scope, "')">>)

\* Mutant: a window found expired is force-closed, as runExecution does.
CognitionDeniedForceClose(requestedScope) ==
    LET now == clock
        state == _state
        reason == CognitionVerdict(state, now, requestedScope)
    IN  /\ reason # "none"
        /\ Room(1)
        /\ _log' = logAuditEvent(_log,
                     CognitionViolationEvent(reason, state, now, requestedScope))
        /\ _state' = IF reason = "stg_expired"
                     THEN closeSTGState(_state, now)
                     ELSE _state
        /\ lastResult' = Threw("runCognitiveCycle",
                               CognitionViolationError(reason, state, requestedScope))
        /\ UNCHANGED <<clock, stack, taskRuns, executionLog, opens, host>>

\* runCognitiveCycle, steps 1-3 failing: log the violation and throw.
CognitionDenied(requestedScope) ==
    LET now == clock
        state == _state
        reason == CognitionVerdict(state, now, requestedScope)
    IN  /\ reason # "none"
        /\ Room(1)
        /\ _log' = logAuditEvent(_log,
                     CognitionViolationEvent(reason, state, now, requestedScope))
        /\ lastResult' = Threw("runCognitiveCycle",
                               CognitionViolationError(reason, state, requestedScope))
        /\ UNCHANGED <<_state, clock, stack, taskRuns, executionLog, opens, host>>

\* runCognitiveCycle, steps 1-4 passing: log COGNITION_START, call task().
CognitionStart(requestedScope) ==
    LET now == clock
        state == _state
    IN  /\ CognitionVerdict(state, now, requestedScope) = "none"
        /\ Room(2)
        /\ _log' = logAuditEvent(_log,
                     AuditEvent("COGNITION_START", now, "authorized",
                                Some(requestedScope), state.stg_open_id, Null))
        /\ stack' = Append(stack, Frame("runCognitiveCycle", requestedScope, now, state))
        /\ taskRuns' = taskRuns + 1
        /\ UNCHANGED <<_state, clock, lastResult, executionLog, opens, host>>

\* Mutant: a completed cycle consumes the authorization (closes the window).
CognitionCompletedConsumes(result) ==
    /\ stack # <<>>
    /\ Top.fn = "runCognitiveCycle"
    /\ _log' = logAuditEvent(_log,
                 AuditEvent("COGNITION_END", clock, "completed",
                            Some(Top.requestedScope), Top.state.stg_open_id, Null))
    /\ stack' = Pop
    /\ lastResult' = Returned("runCognitiveCycle", result)
    /\ _state' = closeSTGState(_state, clock)
    /\ UNCHANGED <<clock, taskRuns, executionLog, opens, host>>

\* Mutant: the gate forgets to return the task's result.
CognitionCompletedDropsResult(result) ==
    /\ stack # <<>>
    /\ Top.fn = "runCognitiveCycle"
    /\ _log' = logAuditEvent(_log,
                 AuditEvent("COGNITION_END", clock, "completed",
                            Some(Top.requestedScope), Top.state.stg_open_id, Null))
    /\ stack' = Pop
    /\ lastResult' = [fn |-> "runCognitiveCycle", kind |-> "returned", value |-> Null]
    /\ UNCHANGED <<_state, clock, taskRuns, executionLog, opens, host>>

\* Mutant: COGNITION_END carries the time of entry, not of completion.
CognitionCompletedStampsEntry(result) ==
    /\ stack # <<>>
    /\ Top.fn = "runCognitiveCycle"
    /\ _log' = logAuditEvent(_log,
                 AuditEvent("COGNITION_END", Top.now, "completed",
                            Some(Top.requestedScope), Top.state.stg_open_id, Null))
    /\ stack' = Pop
    /\ lastResult' = Returned("runCognitiveCycle", result)
    /\ UNCHANGED <<_state, clock, taskRuns, executionLog, opens, host>>

\* runCognitiveCycle, step 6: task() returned.
CognitionCompleted(result) ==
    /\ stack # <<>>
    /\ Top.fn = "runCognitiveCycle"
    /\ _log' = logAuditEvent(_log,
                 AuditEvent("COGNITION_END", clock, "completed",
                            Some(Top.requestedScope), Top.state.stg_open_id, Null))
    /\ stack' = Pop
    /\ lastResult' = Returned("runCognitiveCycle", result)
    /\ UNCHANGED <<_state, clock, taskRuns, executionLog, opens, host>>

\* Mutant: the task's error is wrapped in a new Error.
CognitionFailedWraps(error) ==
    /\ stack # <<>>
    /\ Top.fn = "runCognitiveCycle"
    /\ _log' = logAuditEvent(_log,
                 AuditEvent("COGNITION_END", clock, "failed",
                            Some(Top.requestedScope), Top.state.stg_open_id,
                            Some([error |-> StringOf(error)])))
    /\ stack' = Pop
    /\ lastResult' = Threw("runCognitiveCycle",
                           GateError(<<"Cognition failed: ">> \o StringOf(error)))
    /\ UNCHANGED <<_state, clock, taskRuns, executionLog, opens, host>>

\* Mutant: a failed task closes the window.
CognitionFailedCloses(error) ==
    /\ stack # <<>>
    /\ Top.fn = "runCognitiveCycle"
    /\ _log' = logAuditEvent(_log,
                 AuditEvent("COGNITION_END", clock, "failed",
                            Some(Top.requestedScope), Top.state.stg_open_id,
                            Some([error |-> StringOf(error)])))
    /\ stack' = Pop
    /\ lastResult' = Threw("runCognitiveCycle", error)
    /\ _state' = closeSTGState(_state, clock)
    /\ UNCHANGED <<clock, taskRuns, executionLog, opens, host>>

\* Mutant: a failing task leaves no COGNITION_END event.
CognitionFailedLogsNothing(error) ==
    /\ stack # <<>>
    /\ Top.fn = "runCognitiveCycle"
    /\ stack' = Pop
    /\ lastResult' = Threw("runCognitiveCycle", error)
    /\ UNCHANGED <<_state, _log, clock, taskRuns, executionLog, opens, host>>

\* runCognitiveCycle, catch block: task() threw.
CognitionFailed(error) ==
    /\ stack # <<>>
    /\ Top.fn = "runCognitiveCycle"
    /\ _log' = logAuditEvent(_log,
                 AuditEvent("COGNITION_END", clock, "failed",
                            Some(Top.requestedScope), Top.state.stg_open_id,
                            Some([error |-> StringOf(error)])))
    /\ stack' = Pop
    /\ lastResult' = Threw("runCognitiveCycle", error)
    /\ UNCHANGED <<_state, clock, taskRuns, executionLog, opens, host>>

\* ------------------------------------------------------------------ execute.ts

\* Mutant: the scope check is the hierarchical one of runCognitiveCycle.
ExecutionVerdictHierarchical(state, now, request) ==
    IF state.state # "OPEN" THEN "no_stg_open"
    ELSE IF state.expires_at # Null /\ now > Val(state.expires_at)
         THEN "authorization_expired"
    ELSE IF ~isScopeAuthorized(request.scope, state.scope)
         THEN "unauthorized_execution"
    ELSE "none"

\* Which check of runExecution fails first: "none" when all pass.
ExecutionVerdict(state, now, request) ==
    IF state.state # "OPEN" THEN "no_stg_open"
    ELSE IF state.expires_at # Null /\ now > Val(state.expires_at)
         THEN "authorization_expired"
    ELSE IF state.scope # Some(request.scope)
         THEN "unauthorized_execution"
    ELSE "none"

ExecutionViolationEvent(reason, state, now, request) ==
    CASE reason = "no_stg_open" ->
           AuditEvent("CONSTITUTIONAL_VIOLATION", now, reason,
                      Some(request.scope), Null, Null)
      [] reason = "authorization_expired" ->
           AuditEvent("CONSTITUTIONAL_VIOLATION", now, reason,
                      Some(request.scope), Null,
                      Some([expires_at |-> Val(state.expires_at)]))
      [] reason = "unauthorized_execution" ->
           AuditEvent("CONSTITUTIONAL_VIOLATION", now, reason,
                      Some(request.scope), Null,
                      Some([authorized_scope |-> state.scope]))

ExecutionViolationError(reason, state, request) ==
    CASE reason = "no_stg_open" ->
           GateError(<<"CONSTITUTIONAL_VIOLATION: Execution attempted without STG authorization (no_stg_open)">>)
      [] reason = "authorization_expired" ->
           GateError(<<"CONSTITUTIONAL_VIOLATION: Execution attempted with expired authorization">>)
      [] reason = "unauthorized_execution" ->
           GateError(<<"CONSTITUTIONAL_VIOLATION: Execution scope '", request.scope,
                       "' not authorized (authorized: '", state.scope, "')">>)

\* error instanceof Error ? error.message : String(error)
ErrorMessageOf(error) ==
    IF error.isError THEN error.message ELSE StringOf(error)

\* Mutant: an expired window is left as it is.
ExecutionDeniedKeepsWindow(request) ==
    LET now == clock
        state == _state
        reason == ExecutionVerdict(state, now, request)
    IN  /\ reason # "none"
        /\ Room(1)
        /\ _log' = logAuditEvent(_log,
                     ExecutionViolationEvent(reason, state, now, request))
        /\ lastResult' = Threw("runExecution",
                               ExecutionViolationError(reason, state, request))
        /\ UNCHANGED <<_state, clock, stack, taskRuns, executionLog, opens, host>>

\* runExecution, steps 1-3 failing: log the violation, force-close the
\* window if it was found expired, and throw.
ExecutionDenied(request) ==
    LET now == clock
        state == _state
        reason == ExecutionVerdict(state, now, request)
    IN  /\ reason # "none"
        /\ Room(1)
        /\ _log' = logAuditEvent(_log,
                     ExecutionViolationEvent(reason, state, now, request))
        /\ _state' = IF reason = "authorization_expired"
                     THEN closeSTGState(_state, now)
                     ELSE _state
        /\ lastResult' = Threw("runExecution",
                               ExecutionViolationError(reason, state, request))
        /\ UNCHANGED <<clock, stack, taskRuns, executionLog, opens, host>>

\* runExecution, step 4: log EXECUTION_START, call request.execute().
ExecutionStart(request) ==
    LET now == clock
        state == _state
    IN  /\ ExecutionVerdict(state, now, request) = "none"
        /\ Room(2)
        /\ _log' = logAuditEvent(_log,
                     AuditEvent("EXECUTION_START", now, "execution_started",
                                Some(request.scope), state.stg_open_id, Null))
        /\ stack' = Append(stack, Frame("runExecution", request.scope, now, state))
        /\ taskRuns' = taskRuns + 1
        /\ UNCHANGED <<_state, clock, lastResult, executionLog, opens, host>>

\* runExecution: request.execute() returned.
ExecutionCompleted(result) ==
    /\ stack # <<>>
    /\ Top.fn = "runExecution"
    /\ _log' = logAuditEvent(_log,
                 AuditEvent("EXECUTION_END", clock, "execution_completed",
                            Some(Top.requestedScope), Top.state.stg_open_id, Null))
    /\ stack' = Pop
    /\ lastResult' = Returned("runExecution", result)
    /\ UNCHANGED <<_state, clock, taskRuns, executionLog, opens, host>>

\* runExecution, catch block: request.execute() threw.
ExecutionFailed(error) ==
    /\ stack # <<>>
    /\ Top.fn = "runExecution"
    /\ _log' = logAuditEvent(_log,
                 AuditEvent("EXECUTION_ERROR", clock, "execution_failed",
                            Some(Top.requestedScope), Null,
                            Some([error |-> ErrorMessageOf(error)])))
    /\ stack' = Pop
    /\ lastResult' = Threw("runExecution", error)
    /\ UNCHANGED <<_state, clock, taskRuns, executionLog, opens, host>>

\* The requests runExecution is handed; the code never reads stg_open_id.
ExecutionRequests ==
    [scope : RuntimeScopes, stg_open_id : {Null} \cup {Some(id) : id \in OpenIds}]

\* ------------------------------------------------------------------ callers

\* Mutant: openSTG appends an STG_OPEN event.
OpenSTGLogs(params) ==
    /\ Room(1)
    /\ _state' = openSTGState(params)
    /\ _log' = logAuditEvent(_log,
                 AuditEvent("STG_OPEN", params.now, "window_opened",
                            Some(params.scope), Some(params.stg_open_id), Null))
    /\ UNCHANGED <<clock, stack, taskRuns, lastResult, executionLog, opens, host>>

\* openSTG(params)
OpenSTG(params) ==
    /\ _state' = openSTGState(params)
    /\ UNCHANGED <<_log, clock, stack, taskRuns, lastResult, executionLog, opens, host>>

\* closeSTG(now)
CloseSTG(now) ==
    /\ _state' = closeSTGState(_state, now)
    /\ UNCHANGED <<_log, clock, stack, taskRuns, lastResult, executionLog, opens, host>>

\* Time passes.
Tick ==
    /\ clock < MaxTime
    /\ clock' = clock + 1
    /\ UNCHANGED <<_state, _log, stack, taskRuns, lastResult, executionLog, opens, host>>

Init ==
    /\ _state = InitialSTGState
    /\ _log = <<>>
    /\ clock = 0
    /\ stack = <<>>
    /\ taskRuns = 0
    /\ lastResult = [fn |-> "none", kind |-> "none", value |-> Null]
    /\ executionLog = <<>>
    /\ opens = {}
    /\ host = [entry |-> "none", phase |-> "not_started", line |-> Null,
               request |-> Null, out |-> <<>>, err |-> <<>>,
               exitCode |-> Null]

\* A call of runCognitiveCycle(task, requestedScope), up to the point where
\* it throws a violation or hands control to the task.
RunCognitiveCycle(requestedScope) ==
    \/ CognitionDenied(requestedScope)
    \/ CognitionStart(requestedScope)

\* A call of runExecution(request), likewise.
RunExecution(request) ==
    \/ ExecutionDenied(request)
    \/ ExecutionStart(request)

\* Every sequence of openSTG, closeSTG and runCognitiveCycle calls.
Next ==
    \/ \E params \in OpenParams : OpenSTG(params)
    \/ \E now \in Times : CloseSTG(now)
    \/ \E requestedScope \in Scopes : RunCognitiveCycle(requestedScope)
    \/ \E result \in TaskValues : CognitionCompleted(result)
    \/ \E error \in TaskErrors : CognitionFailed(error)
    \/ Tick

Spec == Init /\ [][Next]_vars

\* Every sequence of openSTG, closeSTG, runCognitiveCycle and runExecution
\* calls.
NextRuntime ==
    \/ \E params \in RuntimeOpenParams : OpenSTG(params)
    \/ \E now \in Times : CloseSTG(now)
    \/ \E requestedScope \in RuntimeScopes : RunCognitiveCycle(requestedScope)
    \/ \E result \in RuntimeValues : CognitionCompleted(result)
    \/ \E error \in RuntimeErrors : CognitionFailed(error)
    \/ \E request \in ExecutionRequests : RunExecution(request)
    \/ \E result \in RuntimeValues : ExecutionCompleted(result)
    \/ \E error \in RuntimeErrors : ExecutionFailed(error)
    \/ Tick

SpecRuntime == Init /\ [][NextRuntime]_vars

\* Every sequence of openSTG, closeSTG and runCognitiveCycle calls made at
\* one instant, with the wider choice of requested scopes.
NextScopes ==
    \/ \E params \in OpenParams : OpenSTG(params)
    \/ \E now \in Times : CloseSTG(now)
    \/ \E requestedScope \in WideScopes : RunCognitiveCycle(requestedScope)
    \/ \E result \in TaskValues : CognitionCompleted(result)
    \/ \E error \in TaskErrors : CognitionFailed(error)

SpecScopes == Init /\ [][NextScopes]_vars

\* ------------------------------------------------------------------ properties

\* The step appended exactly one event to the audit log.
AppendedOne ==
    /\ Len(_log') = Len(_log) + 1
    /\ SubSeq(_log', 1, Len(_log)) = _log

NewEvent == _log'[Len(_log')]

\* requested is the scope `authorized` or a dot-descendant of it, character
\* by character.
InScope(requested, authorized) ==
    \/ requested = authorized
    \/ /\ Len(requested) > Len(authorized)
       /\ \A i \in 1..Len(authorized) : requested[i] = authorized[i]
       /\ requested[Len(authorized) + 1] = "."

WindowOpen == _state.state = "OPEN"
WindowUnexpired == _state.expires_at = Null \/ clock <= Val(_state.expires_at)

\* The step appended to the audit log, as every step of a gate does; the
\* steps of openSTG, closeSTG and the clock do not.
Logged == Len(_log') > Len(_log)

\* The step invoked a task.
TaskInvoked == taskRuns' = taskRuns + 1
NoTaskInvoked == taskRuns' = taskRuns

\* The step ended a call by throwing a constitutional violation.
ThrewViolation(fn) ==
    /\ lastResult'.fn = fn
    /\ lastResult'.kind = "threw"
    /\ Val(lastResult'.value).isError
    /\ Val(lastResult'.value).message[1] \in
         { "CONSTITUTIONAL_VIOLATION: Cognition attempted without STG_OPEN",
           "CONSTITUTIONAL_VIOLATION: STG_OPEN has expired",
           "CONSTITUTIONAL_VIOLATION: Scope '" }

\* The step appended one CONSTITUTIONAL_VIOLATION event, with this reason
\* and requested scope.
AppendedViolation(reason, requestedScope) ==
    /\ AppendedOne
    /\ NewEvent.type = "CONSTITUTIONAL_VIOLATION"
    /\ NewEvent.reason = reason
    /\ NewEvent.scope = Some(requestedScope)
    /\ NewEvent.timestamp = clock

\* The step appended one COGNITION_START event for this requested scope.
AppendedStart(requestedScope) ==
    /\ AppendedOne
    /\ NewEvent.type = "COGNITION_START"
    /\ NewEvent.reason = "authorized"
    /\ NewEvent.scope = Some(requestedScope)
    /\ NewEvent.timestamp = clock

\* The step denied the call: one violation logged, the error thrown, no task
\* invoked, no call left in progress.
DeniedWith(reason, requestedScope) ==
    /\ AppendedViolation(reason, requestedScope)
    /\ ThrewViolation("runCognitiveCycle")
    /\ NoTaskInvoked
    /\ stack' = stack

\* The step passed the gate: COGNITION_START logged, the task invoked once
\* and now running.
AdmittedWith(requestedScope) ==
    /\ AppendedStart(requestedScope)
    /\ TaskInvoked
    /\ Len(stack') = Len(stack) + 1
    /\ stack'[Len(stack')].requestedScope = requestedScope

\* C1: a task is invoked, and a COGNITION_START event appended, only by a
\* step taken while the window is OPEN, the clock is not after expires_at, and
\* the event's scope is the window's scope or a dot-descendant of it.
C1_InvokedOnlyUnderValidWindow ==
    [][ (taskRuns' # taskRuns
         \/ (Len(_log') > Len(_log) /\ NewEvent.type = "COGNITION_START"))
        => /\ WindowOpen
           /\ WindowUnexpired
           /\ _state.scope # Null
           /\ AppendedOne
           /\ NewEvent.type = "COGNITION_START"
           /\ InScope(Val(NewEvent.scope), Val(_state.scope))
           /\ TaskInvoked ]_vars

\* C1 witness: a task runs under a dot-descendant of the window's scope,
\* entered exactly at expires_at.
C1_Witness ==
    /\ stack # <<>>
    /\ taskRuns = 1
    /\ _log[Len(_log)].type = "COGNITION_START"
    /\ Top.requestedScope = <<"a", ".", "b">>
    /\ Top.state.scope = Some(<<"a">>)
    /\ Top.now = Val(Top.state.expires_at)

\* C2: every runCognitiveCycle call made while the window is CLOSED throws,
\* appends exactly one CONSTITUTIONAL_VIOLATION event with reason no_stg_open,
\* invokes no task and leaves the state CLOSED.
C2_ClosedAlwaysDenied ==
    [][ \A s \in WideScopes :
          (Logged /\ _state.state = "CLOSED" /\ RunCognitiveCycle(s))
          => /\ DeniedWith("no_stg_open", s)
             /\ _state'.state = "CLOSED" ]_vars

\* C2 witness: a call with the empty scope was denied on a CLOSED window
\* that had been open before.
C2_Witness ==
    /\ _state.state = "CLOSED"
    /\ _state.last_open_time # Null
    /\ _log # <<>>
    /\ _log[Len(_log)].reason = "no_stg_open"
    /\ _log[Len(_log)].scope = Some(<<>>)
    /\ _log[Len(_log)].timestamp = clock
    /\ lastResult.kind = "threw"
    /\ taskRuns = 0

\* C3: on an OPEN, unexpired window with scope a, a call requesting s is
\* admitted iff s = a or s starts with a + "."; every other s is denied with
\* reason unauthorized_cognition and no task is invoked.
C3_ScopeDecides ==
    [][ \A s \in WideScopes :
          (Logged /\ WindowOpen /\ WindowUnexpired /\ _state.scope # Null
             /\ RunCognitiveCycle(s))
          => IF InScope(s, Val(_state.scope))
             THEN AdmittedWith(s)
             ELSE DeniedWith("unauthorized_cognition", s) ]_vars

\* C3 witness: under scope "a", a call requesting "a." was admitted and
\* ran, and "ab" (a shared prefix without the dot) was then denied as
\* unauthorized_cognition.
C3_Witness ==
    /\ Len(_log) = 3
    /\ WindowOpen
    /\ _state.scope = Some(<<"a">>)
    /\ _log[1].type = "COGNITION_START"
    /\ _log[1].scope = Some(<<"a", ".">>)
    /\ _log[2].type = "COGNITION_END"
    /\ _log[3].reason = "unauthorized_cognition"
    /\ _log[3].scope = Some(<<"a", "b">>)
    /\ _log[3].metadata = Some([authorized_scope |-> Some(<<"a">>)])

\* C4: on an OPEN window with expires_at set, a call is denied with reason
\* stg_expired (no task invoked) iff the clock is after expires_at; at or
\* before expires_at the outcome is never stg_expired.
C4_ExpiryBoundary ==
    [][ \A s \in Scopes :
          (Logged /\ WindowOpen /\ _state.expires_at # Null
             /\ RunCognitiveCycle(s))
          => /\ (clock > Val(_state.expires_at))
                  => DeniedWith("stg_expired", s)
             /\ (clock <= Val(_state.expires_at))
                  => /\ AppendedOne
                     /\ NewEvent.reason # "stg_expired"
                     /\ (InScope(s, Val(_state.scope)) => AdmittedWith(s)) ]_vars

\* C4 witness: the same window admitted a call at now = expires_at and
\* denied the same scope as stg_expired one tick later.
C4_Witness ==
    /\ Len(_log) = 3
    /\ WindowOpen
    /\ _log[1].type = "COGNITION_START"
    /\ _log[1].timestamp = Val(_state.expires_at)
    /\ _log[3].reason = "stg_expired"
    /\ _log[3].timestamp = Val(_state.expires_at) + 1
    /\ _log[3].scope = _log[1].scope

\* The gate must admit the call: OPEN, not after expires_at, scope within.
Authorized(s) ==
    /\ WindowOpen
    /\ WindowUnexpired
    /\ _state.scope # Null
    /\ InScope(s, Val(_state.scope))

\* C5: every denied runCognitiveCycle attempt appends exactly one
\* CONSTITUTIONAL_VIOLATION event, invokes no task and leaves the window
\* state as it was; so a burst of N denials adds N events, runs nothing and
\* ends in the state it started in.
C5_DenialIsIdempotent ==
    [][ \A s \in Scopes :
          (Logged /\ ~Authorized(s) /\ RunCognitiveCycle(s))
          => /\ AppendedOne
             /\ NewEvent.type = "CONSTITUTIONAL_VIOLATION"
             /\ NewEvent.scope = Some(s)
             /\ NoTaskInvoked
             /\ stack' = stack
             /\ _state' = _state ]_vars

\* C5 witness: three denials in a row on an OPEN window (an unauthorized
\* scope, then two scopes after expiry), no task ever run.
C5_Witness ==
    /\ Len(_log) = 3
    /\ \A i \in 1..3 : _log[i].type = "CONSTITUTIONAL_VIOLATION"
    /\ _log[1].reason = "unauthorized_cognition"
    /\ _log[2].reason = "stg_expired"
    /\ _log[3].reason = "stg_expired"
    /\ _log[1].scope # _log[2].scope
    /\ WindowOpen
    /\ taskRuns = 0

\* How many events of this type the log holds from position `from` on.
CountFrom(type, from) ==
    Cardinality({i \in from..Len(_log) : _log[i].type = type})

\* Every call in progress has logged its COGNITION_START, and since then
\* only whole START/END pairs (calls made by its task) have followed.
StartsMatchCalls ==
    /\ CountFrom("COGNITION_START", 1)
         = CountFrom("COGNITION_END", 1) + Len(stack)
    /\ CountFrom("COGNITION_START", 1) = taskRuns
    /\ \A d \in 1..Len(stack) :
         \E i \in 1..Len(_log) :
           /\ _log[i].type = "COGNITION_START"
           /\ _log[i].scope = Some(stack[d].requestedScope)
           /\ _log[i].timestamp = stack[d].now
           /\ CountFrom("COGNITION_START", i + 1)
                = CountFrom("COGNITION_END", i + 1) + (Len(stack) - d)

\* The step ended the innermost running call.
CallEnded ==
    /\ stack # <<>>
    /\ stack' = SubSeq(stack, 1, Len(stack) - 1)

\* The step appended one COGNITION_END event for the innermost running call.
AppendedEnd(reason) ==
    /\ AppendedOne
    /\ NewEvent.type = "COGNITION_END"
    /\ NewEvent.reason = reason
    /\ NewEvent.scope = Some(stack[Len(stack)].requestedScope)
    /\ NewEvent.stg_open_id = stack[Len(stack)].state.stg_open_id
    /\ NewEvent.timestamp = clock

C7_SuccessPath ==
    /\ [] StartsMatchCalls
    /\ [][ /\ \A s \in Scopes :
                (Logged /\ CognitionStart(s))
                => /\ AdmittedWith(s)
                   /\ NewEvent.stg_open_id = _state.stg_open_id
                   /\ NewEvent.metadata = Null
           /\ \A v \in TaskValues :
                (Logged /\ CognitionCompleted(v))
                => /\ AppendedEnd("completed")
                   /\ NewEvent.metadata = Null
                   /\ CallEnded
                   /\ NoTaskInvoked
                   /\ lastResult'.fn = "runCognitiveCycle"
                   /\ lastResult'.kind = "returned"
                   /\ lastResult'.value = Some(v) ]_vars

\* C7 witness: one admitted call returned "X": the log is exactly its START
\* and its completed END, and the task ran once.
C7_Witness ==
    /\ Len(_log) = 2
    /\ stack = <<>>
    /\ _log[1].type = "COGNITION_START"
    /\ _log[2].type = "COGNITION_END"
    /\ _log[2].reason = "completed"
    /\ _log[2].timestamp > _log[1].timestamp
    /\ lastResult.kind = "returned"
    /\ lastResult.value = Some("X")
    /\ taskRuns = 1

\* C8: when the task of an admitted call throws e, the gate appends
\* COGNITION_END with reason failed (its COGNITION_START being in the log),
\* throws e itself, invokes no task again and leaves the window state
\* unchanged.
C8_TaskFailurePropagates ==
    [][ \A e \in TaskErrors :
          (Logged /\ CognitionFailed(e))
          => /\ AppendedEnd("failed")
             /\ \E i \in 1..Len(_log) :
                  /\ _log[i].type = "COGNITION_START"
                  /\ _log[i].scope = NewEvent.scope
             /\ CallEnded
             /\ NoTaskInvoked
             /\ lastResult'.fn = "runCognitiveCycle"
             /\ lastResult'.kind = "threw"
             /\ lastResult'.value = Some(e)
             /\ _state' = _state ]_vars

\* C8 witness: the task threw Error("TASK_EXECUTED") under an OPEN window:
\* the caller holds that error, the log ends with the failed END.
C8_Witness ==
    /\ Len(_log) = 2
    /\ stack = <<>>
    /\ _log[1].type = "COGNITION_START"
    /\ _log[2].type = "COGNITION_END"
    /\ _log[2].reason = "failed"
    /\ _log[2].metadata = Some([error |-> <<"Error: ", "TASK_EXECUTED">>])
    /\ lastResult.kind = "threw"
    /\ Val(lastResult.value).message = <<"TASK_EXECUTED">>
    /\ WindowOpen
    /\ taskRuns = 1

\* C9: no step of runCognitiveCycle (a denial, an admission, the return or
\* the failure of its task) changes the window state: in runs of openSTG,
\* closeSTG and runCognitiveCycle alone, every step that appends to the audit
\* log, starts or ends a call or invokes a task (each step of the gate does
\* the first) leaves every field of the state as it was.
C9_GateNeverWritesState ==
    [][ ( \/ Len(_log') # Len(_log)
          \/ Len(stack') # Len(stack)
          \/ taskRuns' # taskRuns )
        => _state' = _state ]_vars

\* C9 witness: a window that saw a task fail and was then found expired is
\* still OPEN with its expires_at in the past.
C9_Witness ==
    /\ Len(_log) = 3
    /\ _log[2].type = "COGNITION_END"
    /\ _log[2].reason = "failed"
    /\ _log[3].reason = "stg_expired"
    /\ _log[3].timestamp = clock
    /\ WindowOpen
    /\ _state.expires_at = Some(0)
    /\ _state.stg_open_id = _log[3].stg_open_id
    /\ clock = 1

ClosedMeansNulls ==
    _state.state = "CLOSED"
      => /\ _state.scope = Null
         /\ _state.stg_open_id = Null
         /\ _state.expires_at = Null

\* C10: in every state reached by openSTG, closeSTG, runCognitiveCycle and
\* runExecution calls, a CLOSED window has scope, stg_open_id and expires_at
\* null; and until the first openSTG (last_open_time still null) the state
\* is the initial one, CLOSED with cooldown_until = 0.
C10_ClosedHasNoWindowFields ==
    /\ ClosedMeansNulls
    /\ _state.last_open_time = Null
         => (_state.state = "CLOSED" /\ _state.cooldown_until = 0)

\* C10 witness: a window that was open has been force-closed by runExecution
\* on expiry, keeping its last_open_time and cooldown_until.
C10_Witness ==
    /\ _state.state = "CLOSED"
    /\ _state.last_open_time # Null
    /\ _state.cooldown_until = 1
    /\ _log # <<>>
    /\ _log[Len(_log)].reason = "authorization_expired"
    /\ ClosedMeansNulls

\* ------------------------------------------------------------------ setSTGState

\* The states setSTGState is handed: any value of type STGState, here the
\* initial one, an OPEN one without scope, id or expiry, and a CLOSED one that
\* still carries a scope, an id and an expiry.
SetStates ==
    { InitialSTGState,
      [state |-> "OPEN", last_open_time |-> Null, expires_at |-> Null,
       scope |-> Null, stg_open_id |-> Null, cooldown_until |-> 0],
      [state |-> "CLOSED", last_open_time |-> Null, expires_at |-> Some(0),
       scope |-> Some(<<"a">>), stg_open_id |-> Some("id1"),
       cooldown_until |-> 0] }

\* setSTGState(next)
SetSTGState(next) ==
    /\ _state' = next
    /\ UNCHANGED <<_log, clock, stack, taskRuns, lastResult, executionLog, opens, host>>

\* Every sequence of calls of the exported operations that touch the window
\* state: openSTG, closeSTG, setSTGState, runCognitiveCycle, runExecution.
NextExports ==
    \/ NextRuntime
    \/ \E next \in SetStates : SetSTGState(next)

SpecExports == Init /\ [][NextExports]_vars

\* A state openSTG or closeSTG can produce: OPEN with every window field
\* set, or CLOSED with scope, stg_open_id and expires_at null.
OpenCloseShaped(state) ==
    IF state.state = "OPEN"
    THEN /\ state.last_open_time # Null
         /\ state.expires_at # Null
         /\ state.scope # Null
         /\ state.stg_open_id # Null
    ELSE /\ state.expires_at = Null
         /\ state.scope = Null
         /\ state.stg_open_id = Null

\* C11: the window state changes only in a step that is an openSTG or a
\* closeSTG call of the authority, and every state reached is one that
\* openSTG or closeSTG can produce.
C11_OnlyOpenAndCloseMutate ==
    /\ [] OpenCloseShaped(_state)
    /\ [][ _state' # _state
           => \/ \E params \in RuntimeOpenParams : OpenSTG(params)
              \/ \E now \in Times : CloseSTG(now) ]_vars

\* ------------------------------------------------------------------ audit log

\* The events a caller hands to logAuditEvent itself: a window opening and a
\* gate evaluation, stamped with the caller's Date.now().
DirectEvents ==
    { AuditEvent("STG_OPEN", clock, "thresholds_satisfied",
                 Some(<<"a">>), Some("id1"), Null),
      AuditEvent("GATE_EVALUATION", clock, "cooldown_active",
                 Null, Null, Null) }

\* logAuditEvent(event), called from outside the gates.
LogAuditEvent(event) ==
    /\ Room(1)
    /\ _log' = logAuditEvent(_log, event)
    /\ UNCHANGED <<_state, clock, stack, taskRuns, lastResult, executionLog, opens, host>>

\* getAuditLog() returns the array `_log` refers to, not a copy of it.  The
\* caller holds that reference; atCall is what the array held when the call
\* returned.
GetAuditLog ==
    /\ lastResult' = Returned("getAuditLog", [array |-> "_log", atCall |-> _log])
    /\ UNCHANGED <<_state, _log, clock, stack, taskRuns, executionLog, opens, host>>

\* What a holder of the returned reference reads through it.
ReadThrough(ref) == CASE ref.array = "_log" -> _log

\* Every sequence of logAuditEvent, runCognitiveCycle, runExecution, openSTG,
\* closeSTG and getAuditLog calls.
NextAudit ==
    \/ \E params \in RuntimeOpenParams : OpenSTG(params)
    \/ \E now \in Times : CloseSTG(now)
    \/ \E requestedScope \in RuntimeScopes : RunCognitiveCycle(requestedScope)
    \/ \E result \in RuntimeValues : CognitionCompleted(result)
    \/ \E error \in RuntimeErrors : CognitionFailed(error)
    \/ \E request \in ExecutionRequests : RunExecution(request)
    \/ \E result \in RuntimeValues : ExecutionCompleted(result)
    \/ \E error \in RuntimeErrors : ExecutionFailed(error)
    \/ \E event \in DirectEvents : LogAuditEvent(event)
    \/ GetAuditLog

SpecAudit == Init /\ [][NextAudit]_vars

\* C12: in every step of a run of logAuditEvent, runCognitiveCycle,
\* runExecution, openSTG, closeSTG and getAuditLog calls the log before the
\* step is a prefix of the log after it; so the log at any earlier moment is a
\* prefix of the log at every later one, no event removed, moved or edited.
C12_LogOnlyGrows ==
    [][ /\ Len(_log') >= Len(_log)
        /\ SubSeq(_log', 1, Len(_log)) = _log ]_vars

\* C12 witness: a log holding an event logged directly, then the violation
\* of a denied execution, read by getAuditLog, and then one more event logged
\* directly.
C12_Witness ==
    /\ Len(_log) = 3
    /\ _log[1].type = "STG_OPEN"
    /\ _log[2].type = "CONSTITUTIONAL_VIOLATION"
    /\ _log[2].reason = "unauthorized_execution"
    /\ _log[3].type = "GATE_EVALUATION"
    /\ lastResult.fn = "getAuditLog"
    /\ Val(lastResult.value).atCall = SubSeq(_log, 1, 2)

\* What a caller does to the array getAuditLog gave it: the `readonly` of the
\* return type is erased at run time, so pop() and push() act on the array.
ArrayWrites == {"pop", "push"}

\* The caller writes through the reference getAuditLog returned.  The array
\* is the one `_log` refers to, so the write lands in the audit log.
WriteThroughReturned(op) ==
    /\ lastResult.fn = "getAuditLog"
    /\ Val(lastResult.value).array = "_log"
    /\ CASE op = "pop" ->
              /\ _log # <<>>
              /\ _log' = SubSeq(_log, 1, Len(_log) - 1)
         [] op = "push" ->
              /\ Room(1)
              /\ _log' = Append(_log,
                           AuditEvent("STG_CLOSE", clock, "forged",
                                      Null, Null, Null))
    /\ UNCHANGED <<_state, clock, stack, taskRuns, lastResult, executionLog, opens, host>>

\* Every sequence of logAuditEvent and getAuditLog calls, with the holder of
\* getAuditLog's result writing through it.
NextAlias ==
    \/ \E event \in DirectEvents : LogAuditEvent(event)
    \/ GetAuditLog
    \/ \E op \in ArrayWrites : WriteThroughReturned(op)

SpecAlias == Init /\ [][NextAlias]_vars

\* C13: what getAuditLog returned stays what it was when the call returned
\* (later appends do not show in it), and no write made through the returned
\* value changes the audit log.
C13_ReturnedIsSnapshot ==
    /\ [] (lastResult.fn = "getAuditLog"
             => ReadThrough(Val(lastResult.value)) = Val(lastResult.value).atCall)
    /\ [][ \A op \in ArrayWrites :
             WriteThroughReturned(op) => _log' = _log ]_vars

\* ------------------------------------------------------------------ evaluate.ts

GateResult(decision, reason) == [decision |-> decision, reason |-> reason]

\* Mutant: the resources rule is tried before the intent rule.
evaluateGateResourcesFirst(signals, policy, now, cooldown_until) ==
    IF now < cooldown_until
    THEN GateResult("DENY", "cooldown_active")
    ELSE IF ~signals.resources_ok
         THEN GateResult("DEFER", "insufficient_resources")
    ELSE IF ~signals.intent_authorized
         THEN GateResult("DENY", "unauthorized_intent")
    ELSE IF signals.prediction_error <= policy.epsilon_prediction_error
         THEN GateResult("DENY", "low_prediction_error")
    ELSE IF signals.novelty_delta <= policy.delta_novelty
         THEN GateResult("DENY", "low_novelty")
    ELSE GateResult("OPEN", "thresholds_satisfied")

\* Mutant: the thresholds are not strict (< for <=).
evaluateGateNonStrict(signals, policy, now, cooldown_until) ==
    IF now < cooldown_until
    THEN GateResult("DENY", "cooldown_active")
    ELSE IF ~signals.intent_authorized
         THEN GateResult("DENY", "unauthorized_intent")
    ELSE IF ~signals.resources_ok
         THEN GateResult("DEFER", "insufficient_resources")
    ELSE IF signals.prediction_error < policy.epsilon_prediction_error
         THEN GateResult("DENY", "low_prediction_error")
    ELSE IF signals.novelty_delta < policy.delta_novelty
         THEN GateResult("DENY", "low_novelty")
    ELSE GateResult("OPEN", "thresholds_satisfied")

\* Mutant: the cooldown is read from the window state, not from the argument.
evaluateGateReadsState(signals, policy, now, cooldown_until) ==
    IF now < _state.cooldown_until
    THEN GateResult("DENY", "cooldown_active")
    ELSE IF ~signals.intent_authorized
         THEN GateResult("DENY", "unauthorized_intent")
    ELSE IF ~signals.resources_ok
         THEN GateResult("DEFER", "insufficient_resources")
    ELSE IF signals.prediction_error <= policy.epsilon_prediction_error
         THEN GateResult("DENY", "low_prediction_error")
    ELSE IF signals.novelty_delta <= policy.delta_novelty
         THEN GateResult("DENY", "low_novelty")
    ELSE GateResult("OPEN", "thresholds_satisfied")

\* Mutant: the cooldown rule is missing.
evaluateGateNoCooldown(signals, policy, now, cooldown_until) ==
    IF ~signals.intent_authorized
    THEN GateResult("DENY", "unauthorized_intent")
    ELSE IF ~signals.resources_ok
         THEN GateResult("DEFER", "insufficient_resources")
    ELSE IF signals.prediction_error <= policy.epsilon_prediction_error
         THEN GateResult("DENY", "low_prediction_error")
    ELSE IF signals.novelty_delta <= policy.delta_novelty
         THEN GateResult("DENY", "low_novelty")
    ELSE GateResult("OPEN", "thresholds_satisfied")

evaluateGate(signals, policy, now, cooldown_until) ==
    IF now < cooldown_until
    THEN GateResult("DENY", "cooldown_active")
    ELSE IF ~signals.intent_authorized
         THEN GateResult("DENY", "unauthorized_intent")
    ELSE IF ~signals.resources_ok
         THEN GateResult("DEFER", "insufficient_resources")
    ELSE IF signals.prediction_error <= policy.epsilon_prediction_error
         THEN GateResult("DENY", "low_prediction_error")
    ELSE IF signals.novelty_delta <= policy.delta_novelty
         THEN GateResult("DENY", "low_novelty")
    ELSE GateResult("OPEN", "thresholds_satisfied")

\* The policy in force: both thresholds 1, windows and cooldowns of one tick,
\* allowed_scopes = {"a"}.
ThePolicy ==
    [epsilon_prediction_error |-> 1,
     delta_novelty |-> 1,
     max_cognitive_duration_ms |-> 1,
     max_compute_budget |-> 1,
     cooldown_duration_ms |-> 1,
     allowed_scopes |-> { <<"a">> },
     policy_hash |-> "h"]

\* Signal strengths below, at and above the thresholds of ThePolicy.
SignalLevels ==
    { ThePolicy.epsilon_prediction_error - 1,
      ThePolicy.epsilon_prediction_error,
      ThePolicy.epsilon_prediction_error + 1 }

SignalsFor(scopes) ==
    [prediction_error : SignalLevels, novelty_delta : SignalLevels,
     resources_ok : BOOLEAN, intent_authorized : BOOLEAN,
     requested_scope : scopes]

\* The arguments evaluateGate is called with: now is the caller's Date.now(),
\* cooldown_until any instant up to one tick past the last.
GateArgs ==
    [signals : SignalsFor(RuntimeAuthScopes), policy : {ThePolicy},
     now : {clock}, cooldown_until : 0..(MaxTime + 1)]

\* evaluateGate(signals, policy, now, cooldown_until); the caller keeps the
\* arguments and the result.
EvaluateGate(args) ==
    /\ lastResult' = Returned("evaluateGate",
                       [args |-> args,
                        result |-> evaluateGate(args.signals, args.policy,
                                                args.now, args.cooldown_until)])
    /\ UNCHANGED <<_state, _log, clock, stack, taskRuns, executionLog, opens, host>>

\* Every sequence of evaluateGate, openSTG and closeSTG calls.
NextEvaluator ==
    \/ \E args \in GateArgs : EvaluateGate(args)
    \/ \E params \in RuntimeOpenParams : OpenSTG(params)
    \/ \E now \in Times : CloseSTG(now)
    \/ Tick

SpecEvaluator == Init /\ [][NextEvaluator]_vars

\* The arguments and the result of the evaluateGate call that finished last.
Evaluated == lastResult.fn = "evaluateGate"
GateCall == Val(lastResult.value).args
GateOutcome == Val(lastResult.value).result

\* C14: the result of every evaluateGate call is that of the first rule that
\* matches, in the order cooldown, intent, resources, prediction error,
\* novelty, else OPEN; so cooldown beats every rule, an unauthorized intent is
\* DENY whatever the resources, and DEFER is returned exactly when
\* now >= cooldown_until, the intent is authorized and resources are not ok.
C14_FirstMatchingRuleWins ==
    Evaluated =>
      LET s == GateCall.signals
          p == GateCall.policy
          cool == GateCall.now < GateCall.cooldown_until
          r == GateOutcome
      IN  /\ cool => r = GateResult("DENY", "cooldown_active")
          /\ (~cool /\ ~s.intent_authorized)
               => r = GateResult("DENY", "unauthorized_intent")
          /\ (~cool /\ s.intent_authorized /\ ~s.resources_ok)
               => r = GateResult("DEFER", "insufficient_resources")
          /\ (~cool /\ s.intent_authorized /\ s.resources_ok
                /\ s.prediction_error <= p.epsilon_prediction_error)
               => r = GateResult("DENY", "low_prediction_error")
          /\ (~cool /\ s.intent_authorized /\ s.resources_ok
                /\ s.prediction_error > p.epsilon_prediction_error
                /\ s.novelty_delta <= p.delta_novelty)
               => r = GateResult("DENY", "low_novelty")
          /\ (~cool /\ s.intent_authorized /\ s.resources_ok
                /\ s.prediction_error > p.epsilon_prediction_error
                /\ s.novelty_delta > p.delta_novelty)
               => r = GateResult("OPEN", "thresholds_satisfied")
          /\ r.decision = "DEFER"
               <=> (GateCall.now >= GateCall.cooldown_until
                      /\ s.intent_authorized /\ ~s.resources_ok)

\* C14 witness: an unauthorized intent with insufficient resources and
\* signals below both thresholds, out of cooldown, was answered
\* DENY / unauthorized_intent.
C14_Witness ==
    /\ Evaluated
    /\ GateCall.now >= GateCall.cooldown_until
    /\ ~GateCall.signals.intent_authorized
    /\ ~GateCall.signals.resources_ok
    /\ GateCall.signals.prediction_error < GateCall.policy.epsilon_prediction_error
    /\ GateOutcome = GateResult("DENY", "unauthorized_intent")

\* C15: evaluateGate answers OPEN iff now >= cooldown_until, the intent is
\* authorized, resources are ok, prediction_error > epsilon_prediction_error
\* and novelty_delta > delta_novelty; a signal equal to its threshold is
\* denied and now = cooldown_until is out of cooldown.
C15_OpenIffAllPass ==
    Evaluated =>
      /\ GateOutcome.decision = "OPEN"
           <=> /\ GateCall.now >= GateCall.cooldown_until
               /\ GateCall.signals.intent_authorized
               /\ GateCall.signals.resources_ok
               /\ GateCall.signals.prediction_error
                    > GateCall.policy.epsilon_prediction_error
               /\ GateCall.signals.novelty_delta
                    > GateCall.policy.delta_novelty
      /\ GateOutcome.decision = "OPEN"
           => GateOutcome.reason = "thresholds_satisfied"
      /\ GateOutcome.decision \in {"OPEN", "DENY", "DEFER"}

\* C15 witness: a call at now = cooldown_until, later than 0, with the
\* novelty exactly at its threshold and everything else passing, was denied
\* as low_novelty.
C15_Witness ==
    /\ Evaluated
    /\ GateCall.now = GateCall.cooldown_until
    /\ GateCall.now > 0
    /\ GateCall.signals.intent_authorized
    /\ GateCall.signals.resources_ok
    /\ GateCall.signals.prediction_error > GateCall.policy.epsilon_prediction_error
    /\ GateCall.signals.novelty_delta = GateCall.policy.delta_novelty
    /\ GateOutcome = GateResult("DENY", "low_novelty")

WindowOpenParams ==
    [now : {clock}, expires_at : Times, scope : WideScopes,
     stg_open_id : OpenIds, cooldown_until : 0..(MaxTime + 1)]

\* Every sequence of openSTG and closeSTG calls.
NextWindow ==
    \/ \E params \in WindowOpenParams : OpenSTG(params)
    \/ \E now \in Times : CloseSTG(now)
    \/ Tick

SpecWindow == Init /\ [][NextWindow]_vars

\* C17: after openSTG(p) the state is exactly OPEN with last_open_time =
\* p.now, expires_at = p.expires_at, scope = p.scope, stg_open_id =
\* p.stg_open_id and cooldown_until = p.cooldown_until, whatever the state
\* before (OPEN or CLOSED, in cooldown or not) and whatever p holds.
C17_OpenReplacesState ==
    [][ \A p \in WindowOpenParams :
          OpenSTG(p)
          => _state' = [state |-> "OPEN",
                        last_open_time |-> Some(p.now),
                        expires_at |-> Some(p.expires_at),
                        scope |-> Some(p.scope),
                        stg_open_id |-> Some(p.stg_open_id),
                        cooldown_until |-> p.cooldown_until] ]_vars

\* C17 witness: a window opened at instant 1 with an expiry already past, the
\* empty scope and a cooldown_until of 0.
C17_Witness ==
    /\ _state.state = "OPEN"
    /\ _state.last_open_time = Some(1)
    /\ _state.expires_at = Some(0)
    /\ _state.scope = Some(<<>>)
    /\ _state.cooldown_until = 0
    /\ clock = 1

\* C18: closeSTG(now) yields CLOSED with expires_at, scope and stg_open_id
\* null and with last_open_time and cooldown_until as they were, for every
\* now: before, at or after cooldown_until.
C18_CloseKeepsCooldown ==
    [][ \A now \in Times :
          CloseSTG(now)
          => _state' = [state |-> "CLOSED",
                        last_open_time |-> _state.last_open_time,
                        expires_at |-> Null,
                        scope |-> Null,
                        stg_open_id |-> Null,
                        cooldown_until |-> _state.cooldown_until] ]_vars

\* C18 witness: a window opened at instant 0 with cooldown_until 0 is CLOSED
\* at instant 1, after its cooldown, and cooldown_until is still 0.
C18_Witness ==
    /\ _state.state = "CLOSED"
    /\ _state.last_open_time = Some(0)
    /\ _state.cooldown_until = 0
    /\ clock = 1

\* ------------------------------------------------------------------ authority

\* The scopes the authority is asked to open a window for: "a" (allowed by
\* ThePolicy), "a.b" and "b".
AuthorityScopes == { <<"a">>, <<"a", Dot, "b">>, <<"b">> }

\* The authority's protocol: evaluateGate on the signals, the policy,
\* Date.now() and the cooldown in force; only on OPEN, openSTG for the
\* signals' requested_scope with expires_at and cooldown_until derived from
\* the policy.
Authority(signals) ==
    LET result == evaluateGate(signals, ThePolicy, clock, _state.cooldown_until)
    IN  /\ _state' =
             IF result.decision = "OPEN"
             THEN openSTGState(
                    [now |-> clock,
                     expires_at |-> clock + ThePolicy.max_cognitive_duration_ms,
                     scope |-> signals.requested_scope,
                     stg_open_id |-> "id1",
                     cooldown_until |-> clock + ThePolicy.cooldown_duration_ms])
             ELSE _state
        /\ UNCHANGED <<_log, clock, stack, taskRuns, lastResult, executionLog, opens, host>>

\* Every run in which windows are opened by the authority alone, closed by
\* closeSTG, and tasks run through runCognitiveCycle.
NextAuthority ==
    \/ \E signals \in SignalsFor(AuthorityScopes) : Authority(signals)
    \/ \E now \in Times : CloseSTG(now)
    \/ \E requestedScope \in AuthorityScopes : RunCognitiveCycle(requestedScope)
    \/ \E result \in RuntimeValues : CognitionCompleted(result)
    \/ \E error \in RuntimeErrors : CognitionFailed(error)
    \/ Tick

SpecAuthority == Init /\ [][NextAuthority]_vars

\* scope is a member of the policy's allowed_scopes or a descendant of one.
AllowedBy(policy, scope) ==
    \E member \in policy.allowed_scopes : InScope(scope, member)

\* C19: when windows are opened only after evaluateGate answered OPEN for the
\* requested scope, the scope of every OPEN window, and the scope of every
\* running task, is a member of policy.allowed_scopes or a descendant of one.
C19_ScopesAreAllowed ==
    /\ _state.state = "OPEN" => AllowedBy(ThePolicy, Val(_state.scope))
    /\ \A i \in 1..Len(stack) : AllowedBy(ThePolicy, stack[i].requestedScope)

\* ------------------------------------------------------------------ atomicity

\* The step is one a running task takes: a gate call it makes, its return or
\* its throw.
TaskStep ==
    /\ stack # <<>>
    /\ Logged \/ Len(stack') # Len(stack)

\* C20: once the gate has admitted a call, no closeSTG takes effect before
\* the task has ended: a running task takes no step (a gate call of its own,
\* its return, its throw) while the window is CLOSED.
C20_NoTaskStepWhileClosed ==
    [][ TaskStep => _state.state # "CLOSED" ]_vars

\* ------------------------------------------------------------------ policy.ts

\* new Set(iterable): the members of the array, duplicates dropped.
SetOf(array) == { array[i] : i \in DOMAIN array }

\* createSTGPolicy(params): Object.freeze of an object literal that copies the
\* six scalar parameters and holds a new Set of params.allowed_scopes.  Nothing
\* is validated.
createSTGPolicy(params) ==
    [epsilon_prediction_error |-> params.epsilon_prediction_error,
     delta_novelty |-> params.delta_novelty,
     max_cognitive_duration_ms |-> params.max_cognitive_duration_ms,
     max_compute_budget |-> params.max_compute_budget,
     cooldown_duration_ms |-> params.cooldown_duration_ms,
     allowed_scopes |-> SetOf(params.allowed_scopes),
     policy_hash |-> params.policy_hash]

\* The parameters createSTGPolicy is handed: thresholds and a cooldown below,
\* at and above zero, and an allowed_scopes array that is empty, has one
\* scope, has it twice, or has two scopes.
PolicyParams ==
    [epsilon_prediction_error : {-1, 0, 1},
     delta_novelty : {-1, 0, 1},
     max_cognitive_duration_ms : {1},
     max_compute_budget : {1},
     cooldown_duration_ms : {-1, 1},
     allowed_scopes : { <<>>,
                        << <<"a">> >>,
                        << <<"a">>, <<"a">> >>,
                        << <<"a">>, <<"a", Dot, "b">> >> },
     policy_hash : {"h"}]

\* createSTGPolicy(params); the caller holds the policy it returns.
CreateSTGPolicy(params) ==
    /\ lastResult' = Returned("createSTGPolicy", createSTGPolicy(params))
    /\ UNCHANGED <<_state, _log, clock, stack, taskRuns, executionLog, opens, host>>

HoldsPolicy == lastResult.fn = "createSTGPolicy" /\ lastResult.kind = "returned"
HeldPolicy == Val(lastResult.value)

\* The scalar fields a holder may try to assign, and the value it assigns.
PolicyFields == {"epsilon_prediction_error", "cooldown_duration_ms", "policy_hash"}

\* policy.field = value by a holder.  The object is frozen, so the write is
\* dropped (or throws a TypeError in strict mode): the field keeps its value.
AssignPolicyField(field) ==
    /\ HoldsPolicy
    /\ UNCHANGED vars

\* What a holder can call on policy.allowed_scopes: ReadonlySet is erased at
\* run time and Object.freeze does not reach into the Set.
SetWrites ==
    [op : {"add", "delete"}, scope : { <<"a">>, <<"b">> }]

\* policy.allowed_scopes.add(scope) / .delete(scope) by a holder.
WriteAllowedScopes(write) ==
    /\ HoldsPolicy
    /\ lastResult' =
         Returned("createSTGPolicy",
                  [HeldPolicy EXCEPT !.allowed_scopes =
                     IF write.op = "add"
                     THEN @ \cup {write.scope}
                     ELSE @ \ {write.scope}])
    /\ UNCHANGED <<_state, _log, clock, stack, taskRuns, executionLog, opens, host>>

\* Every sequence of createSTGPolicy calls and of writes a holder of the
\* returned policy attempts.
NextPolicy ==
    \/ \E write \in SetWrites : WriteAllowedScopes(write)
    \/ \E field \in PolicyFields : AssignPolicyField(field)
    \/ \E params \in PolicyParams : CreateSTGPolicy(params)

SpecPolicy == Init /\ [][NextPolicy]_vars

\* C21: a policy returned by createSTGPolicy never changes: every write a
\* holder attempts, to a field or to the membership of allowed_scopes, leaves
\* the policy it holds exactly as it was.
C21_PolicyIsDeeplyImmutable ==
    [][ ( \/ \E field \in PolicyFields : AssignPolicyField(field)
          \/ \E write \in SetWrites : WriteAllowedScopes(write) )
        => lastResult' = lastResult ]_vars

\* The constraints on createSTGPolicy's input: thresholds and cooldown not
\* negative, allowed_scopes not empty.
ValidPolicyParams(params) ==
    /\ params.epsilon_prediction_error >= 0
    /\ params.delta_novelty >= 0
    /\ params.cooldown_duration_ms >= 0
    /\ params.allowed_scopes # <<>>

\* C22: createSTGPolicy called with a negative threshold, a negative
\* cooldown_duration_ms or an empty allowed_scopes throws an InvalidPolicy
\* error and returns no policy.
C22_InvalidPolicyFailsFast ==
    [][ \A params \in PolicyParams :
          (CreateSTGPolicy(params) /\ ~ValidPolicyParams(params))
          => /\ lastResult'.kind = "threw"
             /\ Val(lastResult'.value).message[1] = "InvalidPolicy" ]_vars

\* ------------------------------------------------------------------ capabilities/log.ts

\* JSON.stringify(entry): the text of one line of the execution log.
ExecutionLogLine(entry) ==
    <<"{\"execution_id\":\"", entry.execution_id,
      "\",\"scope\":\"", entry.scope,
      "\",\"timestamp\":", entry.timestamp, "}">>

\* Mutant: the line is written twice.
appendExecutionLogTwice(file, entry) ==
    Append(Append(file, ExecutionLogLine(entry)), ExecutionLogLine(entry))

\* fs.appendFileSync(logPath, JSON.stringify(entry) + "\n"): the file gains
\* one line.
appendExecutionLog(file, entry) == Append(file, ExecutionLogLine(entry))

ExecutionResult(entry) == [status |-> "EXECUTED", execution_id |-> entry.execution_id]

ExecutionIds == {"e1"}

\* runExecution whose request.execute is () => appendExecutionLog(entry):
\* the task appends the line and returns, and runExecution logs EXECUTION_END
\* and returns the task's result.
LogExecutionCompleted(execution_id) ==
    /\ stack # <<>>
    /\ Top.fn = "runExecution"
    /\ LET entry == [execution_id |-> execution_id,
                     scope |-> Top.requestedScope,
                     timestamp |-> clock]
       IN  /\ executionLog' = appendExecutionLog(executionLog, entry)
           /\ lastResult' = Returned("runExecution", ExecutionResult(entry))
    /\ _log' = logAuditEvent(_log,
                 AuditEvent("EXECUTION_END", clock, "execution_completed",
                            Some(Top.requestedScope), Top.state.stg_open_id, Null))
    /\ stack' = Pop
    /\ UNCHANGED <<_state, clock, taskRuns, opens, host>>

\* Every sequence of openSTG, closeSTG and runExecution calls whose task
\* appends to the execution log; the append may fail (appendFileSync throws).
NextExecution ==
    \/ \E params \in RuntimeOpenParams : OpenSTG(params)
    \/ \E now \in Times : CloseSTG(now)
    \/ \E request \in ExecutionRequests : RunExecution(request)
    \/ \E execution_id \in ExecutionIds : LogExecutionCompleted(execution_id)
    \/ \E error \in RuntimeErrors : ExecutionFailed(error)
    \/ Tick

SpecExecution == Init /\ [][NextExecution]_vars

\* The step ended a runExecution call by throwing a constitutional violation.
ThrewExecutionViolation ==
    /\ lastResult'.fn = "runExecution"
    /\ lastResult'.kind = "threw"
    /\ Val(lastResult'.value).isError
    /\ Val(lastResult'.value).message[1] \in
         { "CONSTITUTIONAL_VIOLATION: Execution attempted without STG authorization (no_stg_open)",
           "CONSTITUTIONAL_VIOLATION: Execution attempted with expired authorization",
           "CONSTITUTIONAL_VIOLATION: Execution scope '" }

\* The step denied the execution: one violation logged, the error thrown,
\* execute not invoked, no call left in progress, the execution log as it was.
ExecutionDeniedWith(reason, scope) ==
    /\ AppendedViolation(reason, scope)
    /\ ThrewExecutionViolation
    /\ NoTaskInvoked
    /\ stack' = stack
    /\ executionLog' = executionLog

\* The step passed the execution gate: EXECUTION_START logged, execute
\* invoked once and now running.
ExecutionAdmittedWith(scope) ==
    /\ AppendedOne
    /\ NewEvent.type = "EXECUTION_START"
    /\ NewEvent.scope = Some(scope)
    /\ NewEvent.timestamp = clock
    /\ TaskInvoked
    /\ Len(stack') = Len(stack) + 1
    /\ stack'[Len(stack')].requestedScope = scope

\* C23: a runExecution call is denied with reason no_stg_open when the state
\* is not OPEN, authorization_expired when the window is OPEN and the clock is
\* after expires_at, unauthorized_execution when the window is OPEN, unexpired
\* and request.scope is not the window's scope; every denial throws the
\* violation, appends exactly one CONSTITUTIONAL_VIOLATION event, does not
\* invoke execute and leaves the execution log file as it was.
C23_ExecutionDenials ==
    [][ \A request \in ExecutionRequests :
          (Logged /\ RunExecution(request))
          => /\ ~WindowOpen
                  => ExecutionDeniedWith("no_stg_open", request.scope)
             /\ (WindowOpen /\ ~WindowUnexpired)
                  => ExecutionDeniedWith("authorization_expired", request.scope)
             /\ (WindowOpen /\ WindowUnexpired
                   /\ _state.scope # Some(request.scope))
                  => ExecutionDeniedWith("unauthorized_execution", request.scope)
             /\ (lastResult' # lastResult)
                  => /\ ThrewExecutionViolation
                     /\ AppendedOne
                     /\ NewEvent.type = "CONSTITUTIONAL_VIOLATION"
                     /\ NoTaskInvoked
                     /\ executionLog' = executionLog ]_vars

\* C23 witness: after one execution wrote its line, a request for a
\* dot-descendant of the window's scope was denied as unauthorized_execution
\* and the file still has that one line.
C23_Witness ==
    /\ Len(_log) = 3
    /\ _log[1].type = "EXECUTION_START"
    /\ _log[2].type = "EXECUTION_END"
    /\ _log[3].type = "CONSTITUTIONAL_VIOLATION"
    /\ _log[3].reason = "unauthorized_execution"
    /\ _log[3].scope = Some(<<"a", ".", "b">>)
    /\ WindowOpen
    /\ _state.scope = Some(<<"a">>)
    /\ lastResult.kind = "threw"
    /\ Len(executionLog) = 1
    /\ taskRuns = 1

C25_ExecutionConsumesAuthorization ==
    [][ \A execution_id \in ExecutionIds :
          (Logged /\ stack # <<>> /\ _state = Top.state
             /\ LogExecutionCompleted(execution_id))
          => \A request \in ExecutionRequests :
               ExecutionVerdict(_state', clock', request) # "none" ]_vars

\* ------------------------------------------------------------------ alive-genesis/cognitive.ts

\* The tasks Genesis is handed: a THINK without payload, a REFLECT with one,
\* and a kind performGenesisTask does not know.
GenesisTasks ==
    { [kind |-> "THINK", payload |-> <<>>],
      [kind |-> "REFLECT", payload |-> <<"p">>],
      [kind |-> "DREAM", payload |-> <<>>] }

\* performGenesisTask(task)
performGenesisTask(task) ==
    CASE task.kind = "THINK" ->
           [kind |-> "THOUGHT",
            output |-> <<"Genesis processed task: ", task.kind>>]
      [] task.kind = "REFLECT" ->
           [kind |-> "REFLECTION", output |-> task.payload]
      [] OTHER ->
           [kind |-> "UNKNOWN",
            output |-> <<"Unknown task kind: ", task.kind>>]

GenesisResults == { performGenesisTask(task) : task \in GenesisTasks }

\* What genesisCognitiveStep returns when it does nothing: null.
GenesisNull == [fn |-> "genesisCognitiveStep", kind |-> "returned", value |-> Null]

\* Mutant: only a missing authorization is refused; an expired one goes on
\* to the gate.
GenesisRefusesOnlyMissing(auth) == auth = Null

\* genesisCognitiveStep, steps 1-2: no authorization, or Date.now() after its
\* expires_at.
GenesisRefuses(auth) ==
    IF auth = Null THEN TRUE ELSE clock > Val(auth).expires_at

\* Mutant: Genesis looks at the window itself and stays silent when it is not
\* OPEN.
GenesisCognitiveStepChecksWindow(auth) ==
    \/ /\ GenesisRefuses(auth) \/ _state.state # "OPEN"
       /\ lastResult' = GenesisNull
       /\ UNCHANGED <<_state, _log, clock, stack, taskRuns, executionLog, opens, host>>
    \/ /\ ~GenesisRefuses(auth)
       /\ _state.state = "OPEN"
       /\ RunCognitiveCycle(Val(auth).scope)

\* genesisCognitiveStep(task, auth), up to the point where it returns null,
\* the gate throws, or the gate hands control to performGenesisTask.  The
\* gate's error is not caught: it reaches the caller as the gate threw it.
GenesisCognitiveStep(auth) ==
    \/ /\ GenesisRefuses(auth)
       /\ lastResult' = GenesisNull
       /\ UNCHANGED <<_state, _log, clock, stack, taskRuns, executionLog, opens, host>>
    \/ /\ ~GenesisRefuses(auth)
       /\ RunCognitiveCycle(Val(auth).scope)

\* The authorizations Genesis is handed: none, or one for scope "a" or "b"
\* with any expiry.
GenesisAuthorizations ==
    {Null} \cup
    { Some(auth) : auth \in [stg_open_id : OpenIds,
                             scope : { <<"a">>, <<"b">> },
                             expires_at : Times] }

\* Every sequence of openSTG, closeSTG and genesisCognitiveStep calls.
NextGenesis ==
    \/ \E params \in RuntimeOpenParams : OpenSTG(params)
    \/ \E now \in Times : CloseSTG(now)
    \/ \E auth \in GenesisAuthorizations : GenesisCognitiveStep(auth)
    \/ \E result \in GenesisResults : CognitionCompleted(result)
    \/ Tick

SpecGenesis == Init /\ [][NextGenesis]_vars

\* C27: genesisCognitiveStep called without authorization, or with one whose
\* expires_at is earlier than the current time, returns null and does nothing
\* else: the audit log, the window state, the running calls and the number of
\* tasks invoked are as before, however often it is repeated.
C27_GenesisSilentWithoutAuthorization ==
    [][ \A auth \in GenesisAuthorizations :
          ((IF auth = Null THEN TRUE ELSE Val(auth).expires_at < clock)
             /\ GenesisCognitiveStep(auth))
          => /\ lastResult' = GenesisNull
             /\ _log' = _log
             /\ _state' = _state
             /\ stack' = stack
             /\ NoTaskInvoked ]_vars

\* C27 witness: Genesis got null at an instant when the window was OPEN,
\* unexpired and opened for a scope, with nothing logged and no task run.
C27_Witness ==
    /\ lastResult = GenesisNull
    /\ WindowOpen
    /\ _state.expires_at = Some(1)
    /\ _state.last_open_time = Some(1)
    /\ clock = 1
    /\ _log = <<>>
    /\ taskRuns = 0

\* C28: on a CLOSED window genesisCognitiveStep called with an authorization
\* that has not expired throws the gate's CONSTITUTIONAL_VIOLATION error,
\* appends exactly one CONSTITUTIONAL_VIOLATION event with reason no_stg_open
\* and invokes no task.
C28_GenesisThrowsAfterClose ==
    [][ \A auth \in GenesisAuthorizations :
          (~WindowOpen /\ auth # Null /\ clock <= Val(auth).expires_at
             /\ GenesisCognitiveStep(auth))
          => DeniedWith("no_stg_open", Val(auth).scope) ]_vars

\* C28 witness: Genesis thought once under a window for "a", the window was
\* closed, and the next step with scope "a" left the no_stg_open violation
\* and the gate's error.
C28_Witness ==
    /\ Len(_log) = 3
    /\ _log[1].type = "COGNITION_START"
    /\ _log[1].scope = Some(<<"a">>)
    /\ _log[2].type = "COGNITION_END"
    /\ _log[3].type = "CONSTITUTIONAL_VIOLATION"
    /\ _log[3].reason = "no_stg_open"
    /\ _log[3].scope = Some(<<"a">>)
    /\ _state.state = "CLOSED"
    /\ _state.last_open_time # Null
    /\ lastResult.fn = "runCognitiveCycle"
    /\ lastResult.kind = "threw"
    /\ taskRuns = 1

\* ------------------------------------------------------------------ sessions

\* Two windows are told apart by their stg_open_id.
SessionIds == {"id1", "id2"}

SessionOpenParams ==
    [now : {clock}, expires_at : ExpiryTimes, scope : RuntimeAuthScopes,
     stg_open_id : SessionIds, cooldown_until : {clock + 1}]

\* Requests for the window's scope that carry the id of a session.
SessionRequests ==
    [scope : RuntimeAuthScopes, stg_open_id : { Some(id) : id \in SessionIds }]

\* Authorizations handed to Genesis for a session, for scope "a" or "b".
SessionAuthorizations ==
    { Some(auth) : auth \in [stg_open_id : SessionIds,
                             scope : { <<"a">>, <<"b">> },
                             expires_at : ExpiryTimes] }

\* Every sequence of openSTG, closeSTG, runExecution and genesisCognitiveStep
\* calls, the windows opened under either id.
NextSession ==
    \/ \E params \in SessionOpenParams : OpenSTG(params)
    \/ \E now \in Times : CloseSTG(now)
    \/ \E request \in SessionRequests : RunExecution(request)
    \/ \E result \in RuntimeValues : ExecutionCompleted(result)
    \/ \E auth \in SessionAuthorizations : GenesisCognitiveStep(auth)
    \/ \E result \in GenesisResults : CognitionCompleted(result)
    \/ Tick

SpecSession == Init /\ [][NextSession]_vars

\* The audit log shows that a window with this id was open at some time.
SessionSeen(id) ==
    \E i \in 1..Len(_log) : _log[i].stg_open_id = Some(id)

\* C26: an authorization is tied to its session: once a window has been
\* replaced by one with another stg_open_id, a runExecution request and a
\* Genesis authorization that carry the earlier window's id (scope matching,
\* not expired) invoke no task.
C26_AuthorizationTiedToSession ==
    [][ /\ \A request \in SessionRequests :
             (Logged /\ WindowOpen
                /\ SessionSeen(Val(request.stg_open_id))
                /\ request.stg_open_id # _state.stg_open_id
                /\ RunExecution(request))
             => NoTaskInvoked
        /\ \A auth \in SessionAuthorizations :
             (Logged /\ WindowOpen
                /\ SessionSeen(Val(auth).stg_open_id)
                /\ Some(Val(auth).stg_open_id) # _state.stg_open_id
                /\ clock <= Val(auth).expires_at
                /\ GenesisCognitiveStep(auth))
             => NoTaskInvoked ]_vars

\* ------------------------------------------------------------------ scope tricks

\* The scope strings of forged authorizations: "a.*", "**", "", "../a", "b".
TrickScopes ==
    { <<"a", Dot, "*">>,
      <<"*", "*">>,
      <<>>,
      <<Dot, Dot, "/", "a">>,
      <<"b">> }

TrickAuthorizations ==
    { Some(auth) : auth \in [stg_open_id : OpenIds,
                             scope : TrickScopes,
                             expires_at : {clock + 1}] }

\* Every sequence of openSTG, closeSTG and genesisCognitiveStep calls in
\* which Genesis is handed unexpired authorizations with forged scopes.
NextTricks ==
    \/ \E params \in RuntimeOpenParams : OpenSTG(params)
    \/ \E now \in Times : CloseSTG(now)
    \/ \E auth \in TrickAuthorizations : GenesisCognitiveStep(auth)
    \/ \E result \in GenesisResults : CognitionCompleted(result)
    \/ Tick

SpecTricks == Init /\ [][NextTricks]_vars

\* C29: with the window CLOSED, genesisCognitiveStep handed an unexpired
\* authorization with any scope string returns null and appends nothing to the
\* audit log.
C29_GenesisSilentOnClosedWindow ==
    [][ \A auth \in TrickAuthorizations :
          (~WindowOpen /\ clock <= Val(auth).expires_at
             /\ GenesisCognitiveStep(auth))
          => /\ lastResult' = GenesisNull
             /\ _log' = _log ]_vars

\* ------------------------------------------------------------------ observation/aliveSnapshot.ts

\* Mutant: the snapshot reports the first event of the log, not the last.
getAliveSnapshotFirstEvent(stgState, auditLog) ==
    [stg_state |-> stgState.state,
     last_event |-> IF Len(auditLog) > 0
                    THEN Some(auditLog[1].type) ELSE Null,
     last_event_time |-> IF Len(auditLog) > 0
                         THEN Some(auditLog[1].timestamp) ELSE Null,
     scope |-> stgState.scope,
     expires_at |-> stgState.expires_at]

\* getAliveSnapshot(), from the state getSTGState() and the log getAuditLog()
\* return; lastEvent?.type of an empty log is undefined (Null).
getAliveSnapshot(stgState, auditLog) ==
    [stg_state |-> stgState.state,
     last_event |-> IF Len(auditLog) > 0
                    THEN Some(auditLog[Len(auditLog)].type) ELSE Null,
     last_event_time |-> IF Len(auditLog) > 0
                         THEN Some(auditLog[Len(auditLog)].timestamp) ELSE Null,
     scope |-> stgState.scope,
     expires_at |-> stgState.expires_at]

\* getAliveSnapshot(); the caller holds the snapshot it returns.
GetAliveSnapshot ==
    /\ lastResult' = Returned("getAliveSnapshot", getAliveSnapshot(_state, _log))
    /\ UNCHANGED <<_state, _log, clock, stack, taskRuns, executionLog, opens, host>>

\* Every sequence of openSTG, closeSTG, runCognitiveCycle and
\* getAliveSnapshot calls.
NextObservation ==
    \/ \E params \in RuntimeOpenParams : OpenSTG(params)
    \/ \E now \in Times : CloseSTG(now)
    \/ \E requestedScope \in RuntimeAuthScopes : RunCognitiveCycle(requestedScope)
    \/ \E result \in RuntimeValues : CognitionCompleted(result)
    \/ GetAliveSnapshot
    \/ Tick

SpecObservation == Init /\ [][NextObservation]_vars

\* The step ended a getAliveSnapshot call: the caller holds a snapshot it did
\* not hold before.
SnapshotReturned ==
    /\ lastResult'.fn = "getAliveSnapshot"
    /\ \/ lastResult.fn # "getAliveSnapshot"
       \/ lastResult'.value # lastResult.value

\* C30: a getAliveSnapshot call leaves the window state, the audit log, the
\* running calls and the number of tasks invoked as they were, and returns
\* stg_state, scope and expires_at of the current window state and the type
\* and timestamp of the last audit event, both undefined on an empty log.
C30_SnapshotIsReadOnly ==
    [][ SnapshotReturned
        => /\ _state' = _state
           /\ _log' = _log
           /\ stack' = stack
           /\ NoTaskInvoked
           /\ executionLog' = executionLog
           /\ LET snapshot == Val(lastResult'.value)
              IN  /\ snapshot.stg_state = _state.state
                  /\ snapshot.scope = _state.scope
                  /\ snapshot.expires_at = _state.expires_at
                  /\ _log = <<>>
                       => /\ snapshot.last_event = Null
                          /\ snapshot.last_event_time = Null
                  /\ _log # <<>>
                       => /\ snapshot.last_event = Some(_log[Len(_log)].type)
                          /\ snapshot.last_event_time
                               = Some(_log[Len(_log)].timestamp) ]_vars

\* C30 witness: a snapshot taken while a task runs under an expired window,
\* after a call of that task was denied: it shows OPEN, the expiry 0 and the
\* violation logged at instant 1, not the COGNITION_START before it.
C30_Witness ==
    /\ lastResult.fn = "getAliveSnapshot"
    /\ Len(_log) = 2
    /\ stack # <<>>
    /\ _log[1].type = "COGNITION_START"
    /\ Val(lastResult.value).stg_state = "OPEN"
    /\ Val(lastResult.value).expires_at = Some(0)
    /\ Val(lastResult.value).scope = Some(<<"a">>)
    /\ Val(lastResult.value).last_event = Some("CONSTITUTIONAL_VIOLATION")
    /\ Val(lastResult.value).last_event_time = Some(1)

\* ------------------------------------------------- order of the gate's checks

\* The window is OPEN and the requested scope is outside its scope.
ScopeOutside(requestedScope) ==
    /\ WindowOpen
    /\ _state.scope # Null
    /\ ~InScope(requestedScope, Val(_state.scope))

\* C31: runCognitiveCycle checks status, then expiry, then scope, and the
\* first failing check alone decides the violation: a denied call appends
\* exactly one violation event, in the step in which its error reaches the
\* caller; a CLOSED window gives no_stg_open for every scope; an OPEN
\* window past its expiry gives stg_expired also when the scope is outside
\* the window's scope, and unauthorized_cognition is left to an OPEN,
\* unexpired window.
C31_FirstFailingCheckDecides ==
    [][ \A requestedScope \in Scopes :
          (Logged /\ RunCognitiveCycle(requestedScope))
          => /\ ~WindowOpen => DeniedWith("no_stg_open", requestedScope)
             /\ (WindowOpen /\ ~WindowUnexpired)
                  => DeniedWith("stg_expired", requestedScope)
             /\ (WindowUnexpired /\ ScopeOutside(requestedScope))
                  => DeniedWith("unauthorized_cognition", requestedScope)
             /\ NewEvent.type = "CONSTITUTIONAL_VIOLATION"
                  => /\ AppendedOne
                     /\ ThrewViolation("runCognitiveCycle")
                     /\ NewEvent.reason =
                          CognitionVerdict(_state, clock, requestedScope) ]_vars

\* A call with a scope outside an expired window's scope was logged as
\* stg_expired, and a call on the CLOSED window as no_stg_open.
C31_Witness ==
    /\ Len(_log) = 2
    /\ _log[1].reason = "stg_expired"
    /\ _log[1].scope = Some(<<"a", "b">>)
    /\ _log[1].timestamp = 1
    /\ _log[2].reason = "no_stg_open"
    /\ _log[2].scope = Some(<<"a", "b">>)
    /\ _state.state = "CLOSED"
    /\ lastResult.kind = "threw"
    /\ taskRuns = 0

\* ------------------------------------------- the two gates on the same scope

\* C32: runExecution accepts a request exactly when runCognitiveCycle would
\* accept the same scope in the same window state at the same time, in
\* particular when the requested scope is a dot-descendant of the window's.
C32_ExecutionAuthorizesAsCognition ==
    \A request \in ExecutionRequests :
        (ExecutionVerdict(_state, clock, request) = "none")
        <=> (CognitionVerdict(_state, clock, request.scope) = "none")

\* ------------------------------------------------ expiry found by runExecution

\* The window state closeSTG leaves: CLOSED, the window's fields null,
\* last_open_time and cooldown_until as they were.
ForceClosed ==
    /\ _state'.state = "CLOSED"
    /\ _state'.scope = Null
    /\ _state'.stg_open_id = Null
    /\ _state'.expires_at = Null
    /\ _state'.cooldown_until = _state.cooldown_until
    /\ _state'.last_open_time = _state.last_open_time

\* C33: a runExecution call that finds the OPEN window expired appends the
\* authorization_expired violation, closes the window and throws; the
\* state it leaves is CLOSED with scope, stg_open_id and expires_at null
\* and cooldown_until unchanged, so that both gates answer the next call,
\* whatever its scope, with no_stg_open.
C33_ExpiredExecutionForceCloses ==
    [][ \A request \in ExecutionRequests :
          (Logged /\ WindowOpen /\ ~WindowUnexpired /\ RunExecution(request))
          => /\ ExecutionDeniedWith("authorization_expired", request.scope)
             /\ ForceClosed
             /\ \A next \in ExecutionRequests :
                  /\ ExecutionVerdict(_state', clock', next) = "no_stg_open"
                  /\ CognitionVerdict(_state', clock', next.scope)
                       = "no_stg_open" ]_vars

\* runExecution found the window expired, and the runCognitiveCycle call
\* that followed was denied with no_stg_open.
C33_Witness ==
    /\ Len(_log) = 2
    /\ _log[1].type = "CONSTITUTIONAL_VIOLATION"
    /\ _log[1].reason = "authorization_expired"
    /\ _log[2].type = "CONSTITUTIONAL_VIOLATION"
    /\ _log[2].reason = "no_stg_open"
    /\ _log[2].metadata = Some([state |-> "CLOSED"])
    /\ lastResult.fn = "runCognitiveCycle"
    /\ _state.state = "CLOSED"
    /\ _state.scope = Null
    /\ _state.last_open_time # Null

\* ------------------------------------------------- cooldown under the protocol

\* Every run in which the authority alone opens windows, for the one scope
\* "a", and tasks run to completion under them.
NextCooldown ==
    \/ \E signals \in SignalsFor(RuntimeAuthScopes) : Authority(signals)
    \/ \E now \in Times : CloseSTG(now)
    \/ \E requestedScope \in RuntimeAuthScopes :
         RunCognitiveCycle(requestedScope)
    \/ \E result \in RuntimeValues : CognitionCompleted(result)
    \/ Tick

SpecCooldown == Init /\ [][NextCooldown]_vars

\* The step opened a window: the state changed and is OPEN.
WindowOpened ==
    /\ _state' # _state
    /\ _state'.state = "OPEN"

\* C34: when windows are opened by the authority's protocol alone
\* (evaluateGate with the current time and the runtime's cooldown_until,
\* openSTG only on OPEN), no window is opened before the cooldown_until
\* that the previous open set, and closeSTG keeps that cooldown_until.
C34_CooldownUnderProtocol ==
    [][ /\ WindowOpened
            => /\ clock >= _state.cooldown_until
               /\ _state'.last_open_time = Some(clock)
        /\ (WindowOpen /\ _state'.state = "CLOSED")
            => _state'.cooldown_until = _state.cooldown_until ]_vars

\* A task ran at instant 0 under a first window, and a second window was
\* opened at instant 1, when the first one's cooldown had just ended.
C34_Witness ==
    /\ _state.state = "OPEN"
    /\ _state.last_open_time = Some(1)
    /\ _state.cooldown_until = 2
    /\ Len(_log) >= 1
    /\ _log[1].type = "COGNITION_START"
    /\ _log[1].timestamp = 0

\* --------------------------------------------------------------- invariants.ts

\* The STGOpenEvent record of an openSTG call: issued_at is the call's now.
STGOpenEvent(params) ==
    [stg_open_id |-> params.stg_open_id,
     scope |-> params.scope,
     issued_at |-> params.now,
     expires_at |-> params.expires_at]

\* The CognitionEvent record of a COGNITION_END event of the audit log.
CognitionEvent(event) ==
    [stg_open_id |-> Val(event.stg_open_id),
     scope |-> Val(event.scope),
     completed_at |-> event.timestamp]

scopeIsSubset(requested, authorized) ==
    \/ requested = authorized
    \/ StartsWith(requested, authorized \o <<Dot>>)

verifyCognitionAuthorization(cognition, openEvents) ==
    \E open \in openEvents :
        /\ open.stg_open_id = cognition.stg_open_id
        /\ open.issued_at < cognition.completed_at
        /\ cognition.completed_at <= open.expires_at
        /\ scopeIsSubset(cognition.scope, open.scope)

\* The caller opens a window with openSTG(params) and keeps the
\* STGOpenEvent record of it for the audit verification.
IssueSTGOpen(params) ==
    /\ _state' = openSTGState(params)
    /\ opens' = opens \cup {STGOpenEvent(params)}
    /\ UNCHANGED <<_log, clock, stack, taskRuns, lastResult, executionLog, host>>

\* Every run in which each opened window is recorded, and tasks run through
\* runCognitiveCycle.
NextReplay ==
    \/ \E params \in RuntimeOpenParams : IssueSTGOpen(params)
    \/ \E now \in Times : CloseSTG(now)
    \/ \E requestedScope \in RuntimeScopes : RunCognitiveCycle(requestedScope)
    \/ \E result \in RuntimeValues : CognitionCompleted(result)
    \/ \E error \in RuntimeErrors : CognitionFailed(error)
    \/ Tick

SpecReplay == Init /\ [][NextReplay]_vars

\* C35: no cognition without a valid prior STG_OPEN: every COGNITION_END
\* event with reason completed passes verifyCognitionAuthorization against
\* the recorded opens, that is, some opened window has the event's
\* stg_open_id, was issued strictly before the event's timestamp, expires
\* at or after it, and has a scope containing the event's scope.
C35_CognitionHasPriorOpen ==
    \A i \in 1..Len(_log) :
        (_log[i].type = "COGNITION_END" /\ _log[i].reason = "completed")
        => verifyCognitionAuthorization(CognitionEvent(_log[i]), opens)

\* ------------------------------------------------------------------ chaining

\* A task handed to runCognitiveCycle is running.
CognitionInProgress ==
    \E i \in 1..Len(stack) : stack[i].fn = "runCognitiveCycle"

\* C36: re-entrant gating is excluded: while a task runs inside
\* runCognitiveCycle, a runCognitiveCycle call issued by that task is not
\* admitted, whatever its scope, so its inner task is not executed.
C36_NoReentrantGating ==
    CognitionInProgress
    => \A requestedScope \in Scopes :
         CognitionVerdict(_state, clock, requestedScope) # "none"

\* ------------------------------------------------------- START / END balance

\* How many events of this type the first k events of the log hold.
CountUpTo(type, k) ==
    Cardinality({i \in 1..k : _log[i].type = type})

C38_LogIsChronological ==
    \A i \in 1..Len(_log) : \A j \in i..Len(_log) :
        _log[i].timestamp <= _log[j].timestamp

\* A runCognitiveCycle call began at instant 0, a runExecution call made by
\* its task was denied at instant 1, and the cycle completed at instant 1.
C38_Witness ==
    /\ Len(_log) = 3
    /\ _log[1].type = "COGNITION_START"
    /\ _log[1].timestamp = 0
    /\ _log[2].type = "CONSTITUTIONAL_VIOLATION"
    /\ _log[2].reason = "authorization_expired"
    /\ _log[2].timestamp = 1
    /\ _log[3].type = "COGNITION_END"
    /\ _log[3].timestamp = 1

\* --------------------------------------------- window transitions and the log

\* The event types the two gates append.
GateEventTypes ==
    { "CONSTITUTIONAL_VIOLATION", "COGNITION_START", "COGNITION_END",
      "EXECUTION_START", "EXECUTION_END", "EXECUTION_ERROR" }

HostEntries == {"index.js", "part_003", "part_004"}

\* The lines typed on stdin, what the body answers, and how it fails.
HostLines == {"hello", "status", ""}
BodyResponses == {"ack", "noop"}
BodyErrors ==
    { [isError |-> TRUE, message |-> <<"Body consult failed: 500">>],
      [isError |-> TRUE, message |-> <<"fetch failed">>] }

\* process.exit(code): the process ends with this code, unless it has
\* ended already, in which case the call is never reached.
processExit(h, code) ==
    IF h.phase = "exited"
    THEN h
    ELSE [h EXCEPT !.phase = "exited", !.exitCode = Some(code)]

\* rl.close(): readline emits "close" before close() returns, and the
\* listener registered with rl.once("close") calls process.exit(0).
rlClose(h) == processExit(h, 0)

\* console.log / process.stdout.write and console.error
WriteOut(h, text) == [h EXCEPT !.out = Append(@, text)]
WriteErr(h, text) == [h EXCEPT !.err = Append(@, text)]

HostUnchanged ==
    UNCHANGED <<_state, _log, clock, stack, taskRuns, lastResult,
                executionLog, opens>>

\* What the host hands to the body: part_003 an observation for startBody,
\* part_004 the consultation consultBody posts; both carry the time.
BodyRequest(entry, line) ==
    IF entry = "part_003"
    THEN [type |-> "host.stdin", payload |-> line, timestamp |-> clock]
    ELSE [type |-> "cli-input", payload |-> line, timestamp |-> clock]

\* The process starts: the banner is printed and both listeners registered.
HostStart(entry) ==
    /\ host.phase = "not_started"
    /\ host' = WriteOut([host EXCEPT !.entry = entry, !.phase = "listening"],
                        <<"starting">>)
    /\ HostUnchanged

\* A line arrives on stdin. The "line" listener is registered with once:
\* it handles the first line and no later one.
HostLine(line) ==
    /\ host.phase \in {"listening", "awaiting"}
    /\ host' =
         IF host.line # Null
         THEN host
         ELSE IF host.entry = "index.js"
         THEN rlClose(
                WriteOut(
                  WriteOut([host EXCEPT !.line = Some(line)],
                           <<"observation", clock, line>>),
                  <<"demo complete">>))
         ELSE [host EXCEPT !.line = Some(line), !.phase = "awaiting",
                           !.request = Some(BodyRequest(host.entry, line))]
    /\ HostUnchanged

\* startBody / consultBody resolves: the try block continues.
BodyResolves(response) ==
    /\ host.phase = "awaiting"
    /\ host' =
         IF host.entry = "part_004"
         THEN rlClose(WriteOut(WriteOut(host, <<"response", response>>),
                               <<"consult complete">>))
         ELSE rlClose(WriteOut(host, <<"demo complete">>))
    /\ HostUnchanged

\* startBody / consultBody rejects: the catch block runs console.error,
\* rl.close() and process.exit(1), in this order.
BodyRejects(error) ==
    /\ host.phase = "awaiting"
    /\ host' = processExit(rlClose(WriteErr(host, StringOf(error))), 1)
    /\ HostUnchanged

\* stdin ends: readline closes the interface.
InputCloses ==
    /\ host.phase \in {"listening", "awaiting"}
    /\ host' = rlClose(host)
    /\ HostUnchanged

NextHost ==
    \/ \E entry \in HostEntries : HostStart(entry)
    \/ \E line \in HostLines : HostLine(line)
    \/ \E response \in BodyResponses : BodyResolves(response)
    \/ \E error \in BodyErrors : BodyRejects(error)
    \/ InputCloses
    \/ Tick

SpecHost == Init /\ [][NextHost]_vars

\* C40: the host handles one input line and terminates, and its exit code
\* tells the outcome: 1 when handling the line failed (startBody or
\* consultBody rejected, reported on stderr), 0 when it succeeded or when
\* stdin closed before any line.
C40_ExitCodeReflectsOutcome ==
    host.phase = "exited"
    => host.exitCode = Some(IF host.err # <<>> THEN 1 ELSE 0)
====
